---- MODULE Spec2Model ----
(***************************************************************************)
(* A model of the Go engine of pgx/_src/games/go.py: GameState, Game.init, *)
(* Game.step, Game.legal_action_mask, Game.is_terminal,                    *)
(* Game.terminal_values and the helpers they call.                         *)
(*                                                                         *)
(* Arrays are functions over 0..n-1, as in the source.  komi is kept       *)
(* doubled (komi2 = 2 * komi) so that 0.5 and 7.5 are integers; the scores *)
(* are float32 values of small integers and are exact.                     *)
(***************************************************************************)
EXTENDS Integers, Sequences, FiniteSets, TLC

VARIABLES
    size,        \* Game.size
    komi2,       \* 2 * Game.komi
    history_length, \* Game.history_length
    state,       \* the GameState the caller holds
    prev,        \* the GameState handed to the last step (history variable)
    acts,        \* the actions of the steps so far (history variable)
    pushed,      \* the snapshots pushed by the steps so far (history variable)
    legal,       \* legal_action_mask(state), as the caller reads it before it moves
    scope,       \* the exploration: number of plies and the cells played
    script,      \* the moves of the opening still to be played
    ply,         \* number of steps explored after Init
    pc,          \* position of the _count_ji while_loop: "idle", "loop", "done"
    ji_color,    \* the colour argument of the running _count_ji
    ji_b,        \* the loop-carried board of _count_ji
    ji_flag      \* the loop-carried flag of _count_ji

vars == <<size, komi2, history_length, state, prev, acts, pushed, legal, scope, script, ply, pc, ji_color, ji_b, ji_flag>>

(***************************************************************************)
(* Bounds of the exploration.                                              *)
(***************************************************************************)
\* steps explored from the empty board of side 2
MaxPly2 == 5
\* steps explored from the empty board of side 3
MaxPly3 == 3
\* steps explored from the empty board of side 5
MaxPly5 == 3
\* steps explored after an opening sequence
MaxPlyOpening == 3

\* steps explored from init() of a Game built with any arguments
MaxPlyNew == 3

\* stones on the boards of side 3 the flood fill is run on
MaxStones3 == 4

\* stones on the boards of side 5 the flood fill is run on
MaxStones5 == 1

(***************************************************************************)
(* Arithmetic and array helpers.                                           *)
(***************************************************************************)
Abs(x) == IF x < 0 THEN 0 - x ELSE x

\* jnp.clip(x, -1, 1)
Clip(x) == IF x < 0 - 1 THEN 0 - 1 ELSE IF x > 1 THEN 1 ELSE x

\* integer // ; a zero divisor yields a negative value in XLA
FloorDiv(a, b) == IF b = 0 THEN 0 - 1 ELSE a \div b

\* integer % with the sign of the divisor; a zero divisor yields the dividend
Mod(a, b) == IF b > 0 THEN a % b ELSE IF b = 0 THEN a ELSE 0 - ((0 - a) % (0 - b))

\* an array held by value: its entries are computed once, when it is built
Arr(f) == f @@ <<>>

\* an assignment x = v followed by the code F that uses x: v is computed once
With(v, F(_)) == CHOOSE r \in {F(x) : x \in {v}} : TRUE

RECURSIVE SumTo(_, _)
\* f[0] + ... + f[n-1]
SumTo(f, n) == IF n <= 0 THEN 0 ELSE f[n - 1] + SumTo(f, n - 1)

\* jnp.count_nonzero of a boolean array of length n
CountTrue(f, n) == Cardinality({i \in 0 .. n - 1 : f[i]})

\* array indexing; a negative index wraps around as in numpy
At(arr, i, n) == IF i < 0 THEN arr[i + n] ELSE arr[i]

(***************************************************************************)
(* GameState and Game.init                                                 *)
(***************************************************************************)
PASS(sz) == sz * sz

init(sz) ==
    [color |-> 0,
     chain_id_board |-> Arr([xy \in 0 .. sz * sz - 1 |-> 0]),
     board_history |-> Arr([i \in 0 .. 7 |-> Arr([xy \in 0 .. sz * sz - 1 |-> 2])]),
     num_captured_stones |-> <<0, 0>>,
     consecutive_pass_count |-> 0,
     ko |-> 0 - 1,
     is_psk |-> FALSE]

_my_color(s) == IF s.color = 0 THEN 1 ELSE 0 - 1

_opponent_color(s) == IF s.color = 0 THEN 0 - 1 ELSE 1

\* the four neighbours of xy in the order dx = -1, +1, dy = -1, +1
_neighbour(xy, sz) ==
    LET x == FloorDiv(xy, sz)
        y == Mod(xy, sz)
        dx == <<0 - 1, 1, 0, 0>>
        dy == <<0, 0, 0 - 1, 1>>
    IN  Arr([i \in 1 .. 4 |->
            IF 0 <= x + dx[i] /\ x + dx[i] < sz /\ 0 <= y + dy[i] /\ y + dy[i] < sz
            THEN (x + dx[i]) * sz + (y + dy[i]) ELSE 0 - 1])

_neighbours(sz) == Arr([xy \in 0 .. sz * sz - 1 |-> _neighbour(xy, sz)])

(***************************************************************************)
(* _count: per chain index, the pseudo-liberty count and the sums of the   *)
(* 1-based indices (and their squares) of the empty neighbours.            *)
(***************************************************************************)
\* _count_neighbor: the sum over the on-board neighbours of xy of arr
CountNeighbor(arr, nb, xy) ==
    SumTo([i \in 0 .. 3 |-> IF nb[xy][i + 1] # 0 - 1 THEN arr[nb[xy][i + 1]] ELSE 0], 4)

\* ChainSum that reads the cell x alone and not the other cells of its chain
ChainSum_cell(arr, cb, x, n) == IF cb[x] = x + 1 THEN arr[x] ELSE 0

\* _num_pseudo, _idx_sum, _idx_squared_sum: the sum of arr over the chain x + 1
ChainSum(arr, cb, x, n) ==
    SumTo([xy \in 0 .. n - 1 |-> IF cb[xy] = x + 1 THEN arr[xy] ELSE 0], n)

_count(s, sz) ==
    LET n == sz * sz
    IN  With(Arr([xy \in 0 .. n - 1 |-> Abs(s.chain_id_board[xy])]), LAMBDA cb :
        With(Arr([xy \in 0 .. n - 1 |-> IF cb[xy] = 0 THEN 1 ELSE 0]), LAMBDA is_empty :
        With(Arr([xy \in 0 .. n - 1 |-> IF cb[xy] = 0 THEN xy + 1 ELSE 0]), LAMBDA idx_sum :
        With(Arr([xy \in 0 .. n - 1 |-> IF cb[xy] = 0 THEN (xy + 1) * (xy + 1) ELSE 0]), LAMBDA idx_squared_sum :
        With(_neighbours(sz), LAMBDA nb :
        With(Arr([xy \in 0 .. n - 1 |-> CountNeighbor(is_empty, nb, xy)]), LAMBDA cell_pseudo :
        With(Arr([xy \in 0 .. n - 1 |-> CountNeighbor(idx_sum, nb, xy)]), LAMBDA cell_sum :
        With(Arr([xy \in 0 .. n - 1 |-> CountNeighbor(idx_squared_sum, nb, xy)]), LAMBDA cell_squared_sum :
            [num_pseudo |-> Arr([x \in 0 .. n - 1 |-> ChainSum(cell_pseudo, cb, x, n)]),
             idx_sum |-> Arr([x \in 0 .. n - 1 |-> ChainSum(cell_sum, cb, x, n)]),
             idx_squared_sum |-> Arr([x \in 0 .. n - 1 |-> ChainSum(cell_squared_sum, cb, x, n)])]
        ))))))))

\* InAtari that asks for a liberty count of one
InAtari_once(cnt, ix, n) == At(cnt.num_pseudo, ix, n) = 1

\* the atari test of legal_action_mask and _apply_action on chain index ix
\* (int32 in the source; on boards of side <= 5 both products stay below
\* 2^31, so no wrap-around occurs)
InAtari(cnt, ix, n) ==
    At(cnt.idx_sum, ix, n) * At(cnt.idx_sum, ix, n)
        = At(cnt.idx_squared_sum, ix, n) * At(cnt.num_pseudo, ix, n)

(***************************************************************************)
(* Game.legal_action_mask                                                  *)
(***************************************************************************)
\* AnyNeighbor that looks at the first neighbour only
AnyNeighbor_first(arr, neighbors) ==
    neighbors[1] # 0 - 1 /\ arr[neighbors[1]]

\* (on_board & arr[neighbors]).any()
AnyNeighbor(arr, neighbors) ==
    \E i \in 1 .. 4 : neighbors[i] # 0 - 1 /\ arr[neighbors[i]]

\* ko_masked without the exclusion of the ko coordinate
ko_masked_ignored(mask, ko, n) == mask

\* the jax.lax.cond at the end of legal_action_mask
ko_masked(mask, ko, n) ==
    IF ko = 0 - 1 THEN mask
    ELSE Arr([xy \in 0 .. n - 1 |-> IF xy = ko THEN FALSE ELSE mask[xy]])

legal_action_mask(s, sz) ==
    LET n == sz * sz
        my_color == _my_color(s)
        opp_color == _opponent_color(s)
    IN  With(Arr([xy \in 0 .. n - 1 |-> s.chain_id_board[xy] = 0]), LAMBDA is_empty :
        With(_count(s, sz), LAMBDA cnt :
        With(Arr([xy \in 0 .. n - 1 |-> Abs(s.chain_id_board[xy]) - 1]), LAMBDA chain_ix :
        With(Arr([xy \in 0 .. n - 1 |-> InAtari(cnt, chain_ix[xy], n)]), LAMBDA in_atari :
        With(Arr([xy \in 0 .. n - 1 |->
                s.chain_id_board[xy] * my_color > 0 /\ ~in_atari[xy]]), LAMBDA has_liberty :
        With(Arr([xy \in 0 .. n - 1 |->
                s.chain_id_board[xy] * opp_color > 0 /\ in_atari[xy]]), LAMBDA kills_opp :
        With(Arr([xy \in 0 .. n - 1 |->
                \/ AnyNeighbor(is_empty, _neighbour(xy, sz))
                \/ AnyNeighbor(kills_opp, _neighbour(xy, sz))
                \/ AnyNeighbor(has_liberty, _neighbour(xy, sz))]), LAMBDA neighbor_ok :
        With(Arr([xy \in 0 .. n - 1 |-> is_empty[xy] /\ neighbor_ok[xy]]), LAMBDA mask :
        With(ko_masked(mask, s.ko, n), LAMBDA masked :
            Arr([a \in 0 .. n |-> IF a = n THEN TRUE ELSE masked[a]])
        )))))))))

(***************************************************************************)
(* _apply_pass, _apply_action and the helpers of _apply_action             *)
(***************************************************************************)
\* _apply_pass that records a pass without counting the consecutive ones
_apply_pass_stuck(s) ==
    [s EXCEPT !.consecutive_pass_count = 1]

_apply_pass(s) ==
    [s EXCEPT !.consecutive_pass_count = s.consecutive_pass_count + 1]

\* _ko_may_occur that holds at every cell
_ko_may_occur_any(s, xy, sz) == TRUE

_ko_may_occur(s, xy, sz) ==
    LET x == xy \div sz
        y == xy % sz
        oob == <<x - 1 < 0, x + 1 >= sz, y - 1 < 0, y + 1 >= sz>>
        oppo_color == _opponent_color(s)
    IN  With(_neighbour(xy, sz), LAMBDA nb :
            \A i \in 1 .. 4 :
                oob[i] \/ At(s.chain_id_board, nb[i], sz * sz) * oppo_color > 0)

\* _remove_stones that credits one stone per removed chain
_remove_stones_one(s, rm_chain_id, rm_stone_xy, ko_may_occur, sz) ==
    LET n == sz * sz
        num_captured_stones ==
            CountTrue([xy \in 0 .. n - 1 |-> s.chain_id_board[xy] = rm_chain_id], n)
    IN  [s EXCEPT
            !.chain_id_board = Arr([xy \in 0 .. n - 1 |->
                IF s.chain_id_board[xy] = rm_chain_id THEN 0 ELSE s.chain_id_board[xy]]),
            !.num_captured_stones[s.color + 1] = @ + 1,
            !.ko = IF ko_may_occur /\ num_captured_stones = 1 THEN rm_stone_xy ELSE s.ko]

_remove_stones(s, rm_chain_id, rm_stone_xy, ko_may_occur, sz) ==
    LET n == sz * sz
        num_captured_stones ==
            CountTrue([xy \in 0 .. n - 1 |-> s.chain_id_board[xy] = rm_chain_id], n)
    IN  [s EXCEPT
            !.chain_id_board = Arr([xy \in 0 .. n - 1 |->
                IF s.chain_id_board[xy] = rm_chain_id THEN 0 ELSE s.chain_id_board[xy]]),
            !.num_captured_stones[s.color + 1] = @ + num_captured_stones,
            !.ko = IF ko_may_occur /\ num_captured_stones = 1 THEN rm_stone_xy ELSE s.ko]

_set_stone(s, xy) ==
    [s EXCEPT !.chain_id_board[xy] = (xy + 1) * _my_color(s)]

\* _merge_chain that relabels the two cells it is given and not their chains
_merge_chain_cells(s, xy, adj_xy, sz) ==
    LET my_color == _my_color(s)
        new_id == Abs(s.chain_id_board[xy])
        adj_chain_id == Abs(s.chain_id_board[adj_xy])
        small_id == (IF new_id < adj_chain_id THEN new_id ELSE adj_chain_id) * my_color
    IN  [s EXCEPT !.chain_id_board = Arr([c \in 0 .. sz * sz - 1 |->
            IF c = xy \/ c = adj_xy THEN small_id ELSE s.chain_id_board[c]])]

_merge_chain(s, xy, adj_xy, sz) ==
    LET my_color == _my_color(s)
        new_id == Abs(s.chain_id_board[xy])
        adj_chain_id == Abs(s.chain_id_board[adj_xy])
        small_id == (IF new_id < adj_chain_id THEN new_id ELSE adj_chain_id) * my_color
        large_id == (IF new_id > adj_chain_id THEN new_id ELSE adj_chain_id) * my_color
    IN  [s EXCEPT !.chain_id_board = Arr([c \in 0 .. sz * sz - 1 |->
            IF s.chain_id_board[c] = large_id THEN small_id ELSE s.chain_id_board[c]])]

_merge_around_xy(i, s, xy, sz) ==
    LET my_color == _my_color(s)
        adj_xy == _neighbour(xy, sz)[i + 1]
        is_off == adj_xy = 0 - 1
        is_my_chain == At(s.chain_id_board, adj_xy, sz * sz) * my_color > 0
    IN  IF ~is_off /\ is_my_chain THEN _merge_chain(s, xy, adj_xy, sz) ELSE s

RECURSIVE RemoveLoop(_, _, _, _, _, _, _)
\* the first fori_loop of _apply_action, iterations i .. 3
RemoveLoop(i, s, is_killed, chain_id, adj_xy, ko_may_occur, sz) ==
    IF i >= 4 THEN s
    ELSE With(IF is_killed[i + 1]
              THEN _remove_stones(s, chain_id[i + 1], adj_xy[i + 1], ko_may_occur, sz)
              ELSE s,
              LAMBDA s_next :
                RemoveLoop(i + 1, s_next, is_killed, chain_id, adj_xy, ko_may_occur, sz))

RECURSIVE MergeLoop(_, _, _, _)
\* the second fori_loop of _apply_action, iterations i .. 3
MergeLoop(i, s, xy, sz) ==
    IF i >= 4 THEN s
    ELSE With(_merge_around_xy(i, s, xy, sz), LAMBDA s_next :
                MergeLoop(i + 1, s_next, xy, sz))

\* IsKilled that finds no chain to remove
IsKilled_never(s, cnt, adj_xy, chain_id, xy, i, n) == FALSE

\* is_killed of _apply_action for the i-th neighbour of xy
IsKilled(s, cnt, adj_xy, chain_id, xy, i, n) ==
    LET oppo_color == _opponent_color(s)
        chain_ix == Abs(chain_id[i]) - 1
        is_atari == InAtari(cnt, chain_ix, n)
        single_liberty ==
            FloorDiv(At(cnt.idx_squared_sum, chain_ix, n), At(cnt.idx_sum, chain_ix, n)) - 1
    IN  /\ adj_xy[i] # 0 - 1
        /\ chain_id[i] * oppo_color > 0
        /\ is_atari
        /\ single_liberty = xy

\* CheckKo that keeps whatever _remove_stones recorded
CheckKo_keep(s, num_captured_stones_before) == s

\* the check of ko at the end of _apply_action
CheckKo(s, num_captured_stones_before) ==
    IF s.num_captured_stones[s.color + 1] - num_captured_stones_before = 1
    THEN s
    ELSE [s EXCEPT !.ko = 0 - 1]

_apply_action(s_in, xy, sz) ==
    LET n == sz * sz
    IN  With([s_in EXCEPT !.consecutive_pass_count = 0], LAMBDA s :
        With(_ko_may_occur(s, xy, sz), LAMBDA ko_may_occur :
        With(_neighbour(xy, sz), LAMBDA adj_xy :
        With(Arr([i \in 1 .. 4 |-> At(s.chain_id_board, adj_xy[i], n)]), LAMBDA chain_id :
        With(_count(s, sz), LAMBDA cnt :
        With(Arr([i \in 1 .. 4 |-> IsKilled(s, cnt, adj_xy, chain_id, xy, i, n)]), LAMBDA is_killed :
        With(RemoveLoop(0, s, is_killed, chain_id, adj_xy, ko_may_occur, sz), LAMBDA s1 :
        With(_set_stone(s1, xy), LAMBDA s2 :
        With(MergeLoop(0, s2, xy, sz), LAMBDA s3 :
            CheckKo(s3, s.num_captured_stones[s.color + 1])
        )))))))))

(***************************************************************************)
(* _check_PSK and Game.step                                                *)
(***************************************************************************)
\* _check_PSK that compares with the five latest snapshots only
_check_PSK_short(s, sz) ==
    LET n == sz * sz
        not_passed == s.consecutive_pass_count = 0
    IN  not_passed /\ \E i \in 1 .. 5 :
            SumTo([xy \in 0 .. n - 1 |->
                Abs(s.board_history[0][xy] - s.board_history[i][xy])], n) = 0

\* _check_PSK that compares after a pass too
_check_PSK_passed(s, sz) ==
    LET n == sz * sz
    IN  \E i \in 1 .. 7 :
            SumTo([xy \in 0 .. n - 1 |->
                Abs(s.board_history[0][xy] - s.board_history[i][xy])], n) = 0

_check_PSK(s, sz) ==
    LET n == sz * sz
        not_passed == s.consecutive_pass_count = 0
    IN  not_passed /\ \E i \in 1 .. 7 :
            SumTo([xy \in 0 .. n - 1 |->
                Abs(s.board_history[0][xy] - s.board_history[i][xy])], n) = 0

\* jnp.roll of the flattened (8, n) history by shift elements
Roll(bh, shift, n) ==
    Arr([i \in 0 .. 7 |-> Arr([j \in 0 .. n - 1 |->
        bh[((i * n + j - shift) % (8 * n)) \div n][((i * n + j - shift) % (8 * n)) % n]])])

\* Snapshot in the colours of the player to move
Snapshot_relative(s, sz) ==
    Arr([xy \in 0 .. sz * sz - 1 |-> Clip(s.chain_id_board[xy] * _my_color(s))])

Snapshot(s, sz) == Arr([xy \in 0 .. sz * sz - 1 |-> Clip(s.chain_id_board[xy])])

\* step that keeps the ko coordinate of the state it is given
step_keep_ko(s_in, act, sz) ==
    LET n == sz * sz
    IN  With(s_in, LAMBDA s0 :
        With(IF act < sz * sz THEN _apply_action(s0, act, sz) ELSE _apply_pass(s0), LAMBDA s1 :
        With([s1 EXCEPT !.color = (s1.color + 1) % 2], LAMBDA s2 :
        With(Roll(s2.board_history, n, n), LAMBDA rolled :
        With([s2 EXCEPT !.board_history = [rolled EXCEPT ![0] = Snapshot(s2, sz)]], LAMBDA s3 :
            [s3 EXCEPT !.is_psk = _check_PSK(s3, sz)]
        )))))

step(s_in, act, sz) ==
    LET n == sz * sz
    IN  With([s_in EXCEPT !.ko = 0 - 1], LAMBDA s0 :
        With(IF act < sz * sz THEN _apply_action(s0, act, sz) ELSE _apply_pass(s0), LAMBDA s1 :
        With([s1 EXCEPT !.color = (s1.color + 1) % 2], LAMBDA s2 :
        With(Roll(s2.board_history, n, n), LAMBDA rolled :
        With([s2 EXCEPT !.board_history = [rolled EXCEPT ![0] = Snapshot(s2, sz)]], LAMBDA s3 :
            [s3 EXCEPT !.is_psk = _check_PSK(s3, sz)]
        )))))

(***************************************************************************)
(* Game.is_terminal, _count_ji, _count_point, Game.terminal_values         *)
(***************************************************************************)
is_terminal(s) ==
    LET two_consecutive_pass == s.consecutive_pass_count >= 2
    IN  two_consecutive_pass \/ s.is_psk

\* the board _count_ji starts from: 0 = empty, 1 = mine, -1 = opponent's
JiBoard(s, clr, sz) ==
    Arr([xy \in 0 .. sz * sz - 1 |->
        IF s.chain_id_board[xy] * clr < 0 THEN 0 - 1
        ELSE IF s.chain_id_board[xy] * clr > 0 THEN 1 ELSE 0])

\* is_opp_neighbours that forgets to mask the off-board neighbours
is_opp_neighbours_wrap(b, sz) ==
    With(_neighbours(sz), LAMBDA nbs :
        Arr([xy \in 0 .. sz * sz - 1 |->
            b[xy] = 0 /\ \E i \in 1 .. 4 : At(b, nbs[xy][i], sz * sz) = 0 - 1]))

\* True if empty and any of neighbours is opponent
is_opp_neighbours(b, sz) ==
    With(_neighbours(sz), LAMBDA nbs :
        Arr([xy \in 0 .. sz * sz - 1 |->
            b[xy] = 0 /\ \E i \in 1 .. 4 :
                At(b, nbs[xy][i], sz * sz) = 0 - 1 /\ nbs[xy][i] # 0 - 1]))

\* the body of the while_loop of _count_ji
fill_opp(x, sz) ==
    With(is_opp_neighbours(x[1], sz), LAMBDA mask :
        <<Arr([xy \in 0 .. sz * sz - 1 |-> IF mask[xy] THEN 0 - 1 ELSE x[1][xy]]),
          \E xy \in 0 .. sz * sz - 1 : mask[xy]>>)

RECURSIVE WhileFill(_, _)
\* jax.lax.while_loop(lambda x: x[1], fill_opp, x)
WhileFill(x, sz) ==
    IF x[2] THEN With(fill_opp(x, sz), LAMBDA y : WhileFill(y, sz)) ELSE x

_count_ji(s, clr, sz) ==
    With(WhileFill(<<JiBoard(s, clr, sz), TRUE>>, sz), LAMBDA x :
        Cardinality({xy \in 0 .. sz * sz - 1 : x[1][xy] = 0}))

\* _count_point that counts the stones and no territory
_count_point_stones(s, sz) ==
    <<Cardinality({xy \in 0 .. sz * sz - 1 : s.chain_id_board[xy] > 0}),
      Cardinality({xy \in 0 .. sz * sz - 1 : s.chain_id_board[xy] < 0})>>

_count_point(s, sz) ==
    <<_count_ji(s, 1, sz) + Cardinality({xy \in 0 .. sz * sz - 1 : s.chain_id_board[xy] > 0}),
      _count_ji(s, 0 - 1, sz) + Cardinality({xy \in 0 .. sz * sz - 1 : s.chain_id_board[xy] < 0})>>

\* terminal_values where a tie after komi goes to black
terminal_values_ge(s, sz, k2) ==
    With(_count_point(s, sz), LAMBDA score :
        LET reward_bw == IF 2 * score[1] - k2 >= 2 * score[2]
                         THEN <<1, 0 - 1>> ELSE <<0 - 1, 1>>
            to_play == s.color
        IN  IF s.is_psk THEN [<<0 - 1, 0 - 1>> EXCEPT ![to_play + 1] = 1] ELSE reward_bw)

\* terminal_values that forgets .at[to_play].set(1.0)
terminal_values_both_lose(s, sz, k2) ==
    With(_count_point(s, sz), LAMBDA score :
        LET reward_bw == IF 2 * score[1] - k2 > 2 * score[2]
                         THEN <<1, 0 - 1>> ELSE <<0 - 1, 1>>
        IN  IF s.is_psk THEN <<0 - 1, 0 - 1>> ELSE reward_bw)

\* score[0] - komi > score[1], with komi2 = 2 * komi
terminal_values(s, sz, k2) ==
    With(_count_point(s, sz), LAMBDA score :
        LET reward_bw == IF 2 * score[1] - k2 > 2 * score[2]
                         THEN <<1, 0 - 1>> ELSE <<0 - 1, 1>>
            to_play == s.color
        IN  IF s.is_psk THEN [<<0 - 1, 0 - 1>> EXCEPT ![to_play + 1] = 1] ELSE reward_bw)

(***************************************************************************)
(* Reference notions of the rules of Go, stated on the board alone and     *)
(* independently of the chain ids and of the liberty sums of the engine.   *)
(***************************************************************************)
Cells(sz) == 0 .. sz * sz - 1

Adjacent(c, d, sz) ==
    Abs((c \div sz) - (d \div sz)) + Abs((c % sz) - (d % sz)) = 1

Sign(x) == IF x > 0 THEN 1 ELSE IF x < 0 THEN 0 - 1 ELSE 0

\* the cells of the board orthogonally adjacent to c
NeighbourCells(c, sz) ==
    {d \in {c - sz, c + sz, c - 1, c + 1} : d \in Cells(sz) /\ Adjacent(c, d, sz)}

RECURSIVE Grow(_, _, _, _)
\* S grown by the cells of allowed adjacent to its latest additions
Grow(S, frontier, allowed, sz) ==
    With({c \in UNION {NeighbourCells(d, sz) : d \in frontier} : c \in allowed /\ c \notin S},
         LAMBDA more : IF more = {} THEN S ELSE Grow(S \cup more, more, allowed, sz))

\* the cells of allowed connected to S through cells of allowed
Reach(S, allowed, sz) == Grow(S, S, allowed, sz)

\* the chain of the stone at xy: the stones of its colour connected to it
RefChain(board, xy, sz) ==
    Reach({xy}, {c \in Cells(sz) : Sign(board[c]) = Sign(board[xy])}, sz)

\* the liberties of a set of stones: the empty cells adjacent to one of them
RefLiberties(board, chain, sz) ==
    {c \in Cells(sz) : board[c] = 0 /\ \E d \in chain : Adjacent(c, d, sz)}

\* the empty cells from which no stone of the opponent of clr is reached
\* along a path of adjacent empty cells
RefTerritory(board, clr, sz) ==
    With({c \in Cells(sz) : board[c] = 0}, LAMBDA empty :
        {c \in empty :
            \A e \in Reach({c}, empty, sz) :
                \A o \in NeighbourCells(e, sz) : board[o] * clr >= 0})

RefArea(board, clr, sz) ==
    Cardinality({c \in Cells(sz) : board[c] * clr > 0})
        + Cardinality(RefTerritory(board, clr, sz))

(***************************************************************************)
(* The caller: construction, then steps with actions of the legal mask.    *)
(* A game starts at init(); it may follow a fixed opening, which is played *)
(* move by move through step, before every action is explored.             *)
(***************************************************************************)
\* side 3: black 1, white 0, white 4, white 6; black to play 3 takes the
\* corner stone in a ko shape
OpeningKo == <<1, 0, 9, 4, 9, 6>>

\* side 3: black 3 and 5, white 0, 2 and 4; black to play 1 takes two
\* separate single stones
OpeningTwo == <<3, 0, 5, 2, 9, 4>>

\* side 2: black 0, white 3, black 1, white 2 takes the two black stones;
\* black 0, white 1, black 0 then brings back the board of the first move
OpeningSuperko == <<0, 3, 1, 2>>

Games ==
    { [size |-> 2, komi2 |-> 0, opening |-> <<>>, plies |-> MaxPly2, moves |-> 0 .. 3],
      [size |-> 2, komi2 |-> 0, opening |-> OpeningSuperko, plies |-> MaxPlyOpening, moves |-> 0 .. 3],
      [size |-> 3, komi2 |-> 15, opening |-> <<>>, plies |-> MaxPly3, moves |-> 0 .. 8],
      [size |-> 3, komi2 |-> 15, opening |-> OpeningKo, plies |-> MaxPlyOpening, moves |-> 0 .. 8],
      [size |-> 3, komi2 |-> 15, opening |-> OpeningTwo, plies |-> MaxPlyOpening, moves |-> 0 .. 8],
      [size |-> 5, komi2 |-> 1, opening |-> <<>>, plies |-> MaxPly5, moves |-> {0, 1, 5, 12}] }

JiIdle(sz) ==
    /\ pc = "idle"
    /\ ji_color = 1
    /\ ji_b = init(sz).chain_id_board
    /\ ji_flag = TRUE

Init ==
    \E g \in Games :
        /\ size = g.size
        /\ komi2 = g.komi2
        /\ history_length = 8
        /\ scope = [plies |-> g.plies, moves |-> g.moves]
        /\ script = g.opening
        /\ state = init(g.size)
        /\ prev = init(g.size)
        /\ acts = <<>>
        /\ pushed = <<>>
        /\ legal = legal_action_mask(init(g.size), g.size)
        /\ ply = 0
        /\ JiIdle(g.size)

\* the caller takes one step of the game with action a of the legal mask:
\* the next move of the opening while there is one, any action afterwards
Advance(a) ==
    /\ pc = "idle"
    /\ IF script # <<>> THEN a = Head(script) ELSE ply < scope.plies
    /\ legal[a]
    /\ state' = step(state, a, size)
    /\ prev' = state
    /\ acts' = Append(acts, a)
    /\ pushed' = Append(pushed, Snapshot(state', size))
    /\ legal' = legal_action_mask(state', size)
    /\ script' = IF script # <<>> THEN Tail(script) ELSE script
    /\ ply' = IF script # <<>> THEN ply ELSE ply + 1
    /\ UNCHANGED <<size, komi2, history_length, scope, pc, ji_color, ji_b, ji_flag>>

Play == \E a \in scope.moves : Advance(a)

Pass == Advance(PASS(size))

Next == Play \/ Pass

Spec == Init /\ [][Next]_vars

(***************************************************************************)
(* Construction with any arguments: Game(size, komi, history_length), then *)
(* init() and steps with actions of the legal mask.                        *)
(***************************************************************************)
\* Game.__init__: the three arguments are stored as they are given
__init__(sz, k2, hl) == [size |-> sz, komi2 |-> k2, history_length |-> hl]

NewGames == {__init__(sz, k2, hl) : sz \in {0 - 1, 0, 2}, k2 \in {0}, hl \in {4, 8}}

InitNew ==
    \E g \in NewGames :
        /\ size = g.size
        /\ komi2 = g.komi2
        /\ history_length = g.history_length
        /\ scope = [plies |-> MaxPlyNew, moves |-> Cells(g.size)]
        /\ script = <<>>
        /\ state = init(g.size)
        /\ prev = init(g.size)
        /\ acts = <<>>
        /\ pushed = <<>>
        /\ legal = legal_action_mask(init(g.size), g.size)
        /\ ply = 0
        /\ JiIdle(g.size)

SpecNew == InitNew /\ [][Next]_vars

(***************************************************************************)
(* _count_ji as a process: the while_loop of the flood fill, run on every  *)
(* board of side 2, on the boards of side 3 with few stones and on the     *)
(* boards of side 5 with few stones, all on the main diagonal              *)
(***************************************************************************)
\* the chain ids of a board given by its colours: the smallest member + 1
ChainIds(board, sz) ==
    Arr([xy \in Cells(sz) |->
        IF board[xy] = 0 THEN 0
        ELSE board[xy] * (1 + CHOOSE m \in RefChain(board, xy, sz) :
                                \A c \in RefChain(board, xy, sz) : m <= c)])

RECURSIVE BoardsUpTo(_, _, _)
\* the boards of side sz with at most k stones, all of them on cells of on
BoardsUpTo(sz, k, on) ==
    IF k = 0 THEN {[xy \in Cells(sz) |-> 0]}
    ELSE With(BoardsUpTo(sz, k - 1, on), LAMBDA B :
            B \cup {[b EXCEPT ![c] = v] : b \in B, c \in on, v \in {0 - 1, 1}})

\* the main diagonal of the board
Diagonal(sz) == {c \in Cells(sz) : c \div sz = c % sz}

JiBoards(sz) ==
    IF sz = 2 THEN [Cells(sz) -> {0 - 1, 0, 1}]
    ELSE IF sz = 3 THEN BoardsUpTo(sz, MaxStones3, Cells(sz))
    ELSE BoardsUpTo(sz, MaxStones5, Diagonal(sz))

InitJi ==
    \E sz \in {2, 3, 5} : \E board \in JiBoards(sz) :
        /\ size = sz
        /\ komi2 = 15
        /\ history_length = 8
        /\ scope = [plies |-> 0, moves |-> {}]
        /\ script = <<>>
        /\ state = [init(sz) EXCEPT !.chain_id_board = ChainIds(board, sz)]
        /\ prev = state
        /\ acts = <<>>
        /\ pushed = <<>>
        /\ legal = legal_action_mask(state, sz)
        /\ ply = 0
        /\ JiIdle(sz)

\* _count_ji(state, clr, size) is called: lines 339-341
JiStart(clr) ==
    /\ pc = "idle"
    /\ pc' = "loop"
    /\ ji_color' = clr
    /\ ji_b' = JiBoard(state, clr, size)
    /\ ji_flag' = TRUE
    /\ UNCHANGED <<size, komi2, history_length, state, prev, acts, pushed, legal, scope, script, ply>>

\* one iteration of the while_loop
JiStep ==
    /\ pc = "loop"
    /\ ji_flag
    /\ ji_b' = fill_opp(<<ji_b, ji_flag>>, size)[1]
    /\ ji_flag' = fill_opp(<<ji_b, ji_flag>>, size)[2]
    /\ UNCHANGED <<size, komi2, history_length, state, prev, acts, pushed, legal, scope, script, ply, pc, ji_color>>

\* the loop condition is false: _count_ji returns (b == 0).sum()
JiReturn ==
    /\ pc = "loop"
    /\ ~ji_flag
    /\ pc' = "done"
    /\ UNCHANGED <<size, komi2, history_length, state, prev, acts, pushed, legal, scope, script, ply, ji_color, ji_b, ji_flag>>

JiCall == \E clr \in {1, 0 - 1} : JiStart(clr)

NextJi == JiCall \/ JiStep \/ JiReturn

\* the loop runs to completion: jax executes it synchronously
SpecJi == InitJi /\ [][NextJi]_vars /\ WF_vars(NextJi)

(***************************************************************************)
(* Notions shared by the properties below.                                 *)
(***************************************************************************)
Steps == Len(acts)

\* the action of the last step
Last == acts[Steps]

\* the k-th step placed a stone
IsPlay(k) == acts[k] < size * size

\* the board, in absolute colours, after the k-th step
Board(k) == IF k = 0 THEN init(size).chain_id_board ELSE pushed[k]

\* the sign of the colour that made the k-th step: black moves first
MoverSign(k) == IF k % 2 = 1 THEN 1 ELSE 0 - 1

\* the stones a stone of sign my placed at a takes off the board: the
\* opponent chains adjacent to a whose only liberty is a
RefCaptured(board, a, my, sz) ==
    UNION {RefChain(board, d, sz) :
        d \in {e \in Cells(sz) :
                /\ Adjacent(a, e, sz)
                /\ board[e] * my < 0
                /\ RefLiberties(board, RefChain(board, e, sz), sz) = {a}}}

(***************************************************************************)
(* C1: after two PASS steps in a row, from any state reached by legal      *)
(* actions, is_terminal is true.                                           *)
(***************************************************************************)
TwoPassesTerminal ==
    (Steps >= 2 /\ acts[Steps] = PASS(size) /\ acts[Steps - 1] = PASS(size))
        => is_terminal(state)

\* two passes in a row after stones were played and a pass was answered
TwoPassesTerminalWitness ==
    /\ Steps >= 5
    /\ acts[Steps] = PASS(size) /\ acts[Steps - 1] = PASS(size)
    /\ \E k \in 1 .. Steps - 3 : acts[k] = PASS(size) /\ IsPlay(k + 1)
    /\ ~state.is_psk
    /\ is_terminal(state)

(***************************************************************************)
(* C2: in every reachable state the legal mask contains PASS, contains no  *)
(* occupied cell and does not contain the ko coordinate when ko is set.    *)
(***************************************************************************)
MaskSound ==
    LET mask == legal_action_mask(state, size)
    IN  /\ mask[PASS(size)]
        /\ \A xy \in Cells(size) : state.chain_id_board[xy] # 0 => ~mask[xy]
        /\ state.ko # 0 - 1 => ~mask[state.ko]

\* ko is set, on a cell that is empty and where the mover would capture
MaskSoundWitness ==
    /\ state.ko # 0 - 1
    /\ state.chain_id_board[state.ko] = 0
    /\ RefCaptured(state.chain_id_board, state.ko, _my_color(state), size) # {}
    /\ ~legal_action_mask(state, size)[state.ko]
    /\ \E xy \in Cells(size) : state.chain_id_board[xy] # 0

(***************************************************************************)
(* C3: a legal non-pass step adds to the mover's capture count the number  *)
(* of stones of the opponent chains adjacent to the target whose only      *)
(* liberty is the target, empties exactly those cells, changes no other    *)
(* stone and leaves the opponent's capture count unchanged.                *)
(***************************************************************************)
CaptureExact ==
    (Steps >= 1 /\ IsPlay(Steps)) =>
        LET b == prev.chain_id_board
            my == _my_color(prev)
            K == RefCaptured(b, Last, my, size)
            mover == prev.color + 1
            other == 2 - prev.color
        IN  /\ state.num_captured_stones[mover]
                = prev.num_captured_stones[mover] + Cardinality(K)
            /\ state.num_captured_stones[other] = prev.num_captured_stones[other]
            /\ \A c \in K : state.chain_id_board[c] = 0
            /\ Sign(state.chain_id_board[Last]) = my
            /\ \A c \in Cells(size) \ (K \cup {Last}) :
                    Sign(state.chain_id_board[c]) = Sign(b[c])

\* the last step took two separate chains, or a chain of several stones
CaptureExactWitness ==
    /\ Steps >= 1 /\ IsPlay(Steps)
    /\ LET b == prev.chain_id_board
           K == RefCaptured(b, Last, _my_color(prev), size)
       IN  /\ Cardinality(K) >= 2
           /\ \E c \in K : \E d \in K : d \notin RefChain(b, c, size)
           /\ \A c \in K : state.chain_id_board[c] = 0

(***************************************************************************)
(* C4: after a legal move that captures exactly one stone while every      *)
(* orthogonal neighbour of the played cell was off-board or the            *)
(* opponent's, the captured cell is not in the legal mask of the resulting *)
(* state, and after one further step with any action the cell is no longer *)
(* the ko coordinate unless that step made a new such capture there.       *)
(***************************************************************************)
\* the k-th step was a single-stone capture under the ko-may-occur condition
KoCaptureAt(k) ==
    /\ k >= 1 /\ k <= Steps
    /\ IsPlay(k)
    /\ Cardinality(RefCaptured(Board(k - 1), acts[k], MoverSign(k), size)) = 1
    /\ \A d \in Cells(size) :
            Adjacent(acts[k], d, size) => Board(k - 1)[d] * MoverSign(k) < 0

\* the cell emptied by the capture of the k-th step
KoCell(k) ==
    CHOOSE c \in RefCaptured(Board(k - 1), acts[k], MoverSign(k), size) : TRUE

KoOnePly ==
    /\ KoCaptureAt(Steps) => ~legal_action_mask(state, size)[KoCell(Steps)]
    /\ KoCaptureAt(Steps - 1) =>
            \/ state.ko # KoCell(Steps - 1)
            \/ KoCaptureAt(Steps) /\ KoCell(Steps) = KoCell(Steps - 1)

\* one step after a ko capture: the cell was the ko coordinate, is it no
\* longer, and is a legal move again
KoOnePlyWitness ==
    /\ Steps >= 2
    /\ KoCaptureAt(Steps - 1)
    /\ prev.ko = KoCell(Steps - 1)
    /\ state.ko = 0 - 1
    /\ legal_action_mask(state, size)[KoCell(Steps - 1)]

(***************************************************************************)
(* C5: when a lone white stone sits in a corner with black on one of its   *)
(* two neighbours, black's legal move on the other neighbour empties the   *)
(* corner and adds the stones taken to black's capture count; the corner   *)
(* becomes the ko coordinate exactly when the corner stone is the only     *)
(* stone taken and every neighbour of the played cell was off-board or     *)
(* white (otherwise ko is none); when it is the ko coordinate it is        *)
(* illegal for white's reply, and it is not the ko coordinate after it.    *)
(***************************************************************************)
Corners(sz) == {0, sz - 1, sz * (sz - 1), sz * sz - 1}

\* the k-th step is black's move on the second neighbour of the white
\* stone in corner c, the first neighbour being black
CornerCaptureAt(k, c) ==
    /\ k >= 1 /\ k <= Steps
    /\ IsPlay(k)
    /\ MoverSign(k) = 1
    /\ Board(k - 1)[c] < 0
    /\ Adjacent(c, acts[k], size)
    /\ \E p \in Cells(size) : Adjacent(c, p, size) /\ Board(k - 1)[p] > 0

CornerCapture ==
    \A c \in Corners(size) :
        /\ CornerCaptureAt(Steps, c) =>
            LET b == prev.chain_id_board
                K == RefCaptured(b, Last, 1, size)
                ko_shape == /\ Cardinality(K) = 1
                            /\ \A d \in Cells(size) : Adjacent(Last, d, size) => b[d] < 0
            IN  /\ c \in K
                /\ state.chain_id_board[c] = 0
                /\ state.num_captured_stones[1] = prev.num_captured_stones[1] + Cardinality(K)
                /\ K = {c} => state.num_captured_stones[1] = prev.num_captured_stones[1] + 1
                /\ state.ko = c <=> ko_shape
                /\ state.ko # c => state.ko = 0 - 1
                /\ state.ko = c => ~legal_action_mask(state, size)[c]
        /\ CornerCaptureAt(Steps - 1, c) => state.ko # c

\* the corner capture in the ko shape: the corner is the ko coordinate
CornerCaptureWitness ==
    \E c \in Corners(size) :
        /\ CornerCaptureAt(Steps, c)
        /\ state.ko = c
        /\ state.chain_id_board[c] = 0
        /\ state.num_captured_stones[1] = prev.num_captured_stones[1] + 1

\* C5 as stated: the corner always becomes the ko coordinate
CornerCaptureAlwaysKo ==
    \A c \in Corners(size) :
        /\ CornerCaptureAt(Steps, c) =>
            /\ state.num_captured_stones[1] = prev.num_captured_stones[1] + 1
            /\ state.chain_id_board[c] = 0
            /\ state.ko = c
            /\ ~legal_action_mask(state, size)[c]
        /\ CornerCaptureAt(Steps - 1, c) => state.ko # c

(***************************************************************************)
(* C6: on a 5x5 board with komi 0.5, after init() and two PASS steps the   *)
(* game is terminal, the area computed for black and the area computed for *)
(* white are both 25, and terminal_values is (-1, +1).                     *)
(***************************************************************************)
TwoPassesFromInit ==
    /\ size = 5
    /\ komi2 = 1
    /\ acts = <<PASS(size), PASS(size)>>

EmptyBoardScore ==
    TwoPassesFromInit =>
        /\ is_terminal(state)
        /\ _count_point(state, size) = <<25, 25>>
        /\ terminal_values(state, size, komi2) = <<0 - 1, 1>>

EmptyBoardScoreWitness ==
    /\ TwoPassesFromInit
    /\ \A xy \in Cells(size) : state.chain_id_board[xy] = 0
    /\ state.consecutive_pass_count = 2
    /\ _count_point(state, size)[1] = _count_point(state, size)[2]

\* C6 as stated: both areas are 0
EmptyBoardScoreZero ==
    TwoPassesFromInit =>
        /\ is_terminal(state)
        /\ _count_point(state, size) = <<0, 0>>
        /\ terminal_values(state, size, komi2) = <<0 - 1, 1>>

(***************************************************************************)
(* C7: for every board the area of a colour, the count _count_ji returns   *)
(* plus the stones of the colour, is the number of its stones plus the     *)
(* number of empty cells from which no opponent stone is reached along     *)
(* orthogonally adjacent empty cells, and the flood fill terminates.       *)
(***************************************************************************)
\* the stones of the colour of sign clr on the board of s
Stones(s, clr, sz) == Cardinality({xy \in Cells(sz) : s.chain_id_board[xy] * clr > 0})

AreaIsStonesPlusTerritory ==
    /\ [](pc = "done" =>
            With(RefArea(state.chain_id_board, ji_color, size), LAMBDA area :
                /\ Cardinality({xy \in Cells(size) : ji_b[xy] = 0})
                        + Stones(state, ji_color, size) = area
                /\ _count_ji(state, ji_color, size)
                        = Cardinality({xy \in Cells(size) : ji_b[xy] = 0})
                /\ _count_point(state, size)[IF ji_color = 1 THEN 1 ELSE 2] = area))
    /\ <>(pc = "done")

\* one black stone at the centre of the 5x5 board: black's area is 25, and
\* the fill of white's area has emptied every cell
AreaIsStonesPlusTerritoryWitness ==
    /\ size = 5
    /\ pc = "done"
    /\ \A xy \in Cells(size) : (state.chain_id_board[xy] > 0) = (xy = 12)
    /\ \A xy \in Cells(size) : state.chain_id_board[xy] >= 0
    /\ ji_color = 1
    /\ Cardinality({xy \in Cells(size) : ji_b[xy] = 0}) + 1 = 25
    /\ _count_point(state, size) = <<25, 0>>

(***************************************************************************)
(* C8: whenever a non-pass step produces a board whose snapshot equals one *)
(* of the snapshots pushed by the preceding 7 plies, the resulting state   *)
(* has is_psk set, is terminal, and terminal_values gives -1 to the player *)
(* who moved and +1 to the other, whatever the areas.                      *)
(***************************************************************************)
\* the last step placed a stone and repeated a board of the 7 plies before
Repeats ==
    /\ Steps >= 2
    /\ IsPlay(Steps)
    /\ \E k \in 1 .. 7 : Steps - k >= 1 /\ pushed[Steps] = pushed[Steps - k]

SuperkoLoses ==
    Repeats =>
        /\ state.is_psk
        /\ is_terminal(state)
        /\ terminal_values(state, size, komi2)[prev.color + 1] = 0 - 1
        /\ terminal_values(state, size, komi2)[2 - prev.color] = 1

\* a repetition by a player whom the areas alone would make the winner
SuperkoLosesWitness ==
    /\ Repeats
    /\ state.is_psk
    /\ terminal_values([state EXCEPT !.is_psk = FALSE], size, komi2)[prev.color + 1] = 1
    /\ terminal_values(state, size, komi2)[prev.color + 1] = 0 - 1

(***************************************************************************)
(* C9: for every state whose is_psk is not set, terminal_values is         *)
(* (+1, -1) if black's area minus komi exceeds white's area and (-1, +1)   *)
(* otherwise: komi is on black's side only and equality is a white win.    *)
(***************************************************************************)
AreaDecides ==
    ~state.is_psk =>
        terminal_values(state, size, komi2)
            = IF 2 * RefArea(state.chain_id_board, 1, size) - komi2
                    > 2 * RefArea(state.chain_id_board, 0 - 1, size)
              THEN <<1, 0 - 1>>
              ELSE <<0 - 1, 1>>

\* stones on the board and black's area less komi equal to white's area
AreaDecidesWitness ==
    /\ ~state.is_psk
    /\ \E xy \in Cells(size) : state.chain_id_board[xy] > 0
    /\ \E xy \in Cells(size) : state.chain_id_board[xy] < 0
    /\ RefArea(state.chain_id_board, 1, size) > 0
    /\ 2 * RefArea(state.chain_id_board, 1, size) - komi2
            = 2 * RefArea(state.chain_id_board, 0 - 1, size)
    /\ terminal_values(state, size, komi2) = <<0 - 1, 1>>

(***************************************************************************)
(* C10: in every reachable state, is_psk set or not, each entry of         *)
(* terminal_values is -1 or +1 and the two entries sum to 0.               *)
(***************************************************************************)
ZeroSum ==
    With(terminal_values(state, size, komi2), LAMBDA reward :
        /\ reward[1] \in {0 - 1, 1}
        /\ reward[2] \in {0 - 1, 1}
        /\ reward[1] + reward[2] = 0)

\* a state with is_psk set: the player to move has +1, the other -1
ZeroSumWitness ==
    /\ state.is_psk
    /\ terminal_values(state, size, komi2)[state.color + 1] = 1
    /\ terminal_values(state, size, komi2)[2 - state.color] = 0 - 1

(***************************************************************************)
(* C11: in every reachable state two occupied cells carry the same chain   *)
(* id if and only if they hold stones of one colour connected by a path of *)
(* adjacent stones of that colour; after a placement next to several       *)
(* separate own chains the new stone and those chains share one id.        *)
(***************************************************************************)
ChainIdentity ==
    \A c \in Cells(size) : \A d \in Cells(size) :
        (state.chain_id_board[c] # 0 /\ state.chain_id_board[d] # 0) =>
            (state.chain_id_board[c] = state.chain_id_board[d]
                <=> d \in RefChain(state.chain_id_board, c, size))

\* the last step placed a stone next to two own chains that had different
\* ids, and the stone and every cell of the two chains now have one id
ChainIdentityWitness ==
    /\ Steps >= 1 /\ IsPlay(Steps)
    /\ \E d \in NeighbourCells(Last, size) : \E e \in NeighbourCells(Last, size) :
        /\ prev.chain_id_board[d] * _my_color(prev) > 0
        /\ prev.chain_id_board[e] * _my_color(prev) > 0
        /\ prev.chain_id_board[d] # prev.chain_id_board[e]
        /\ state.chain_id_board[d] = state.chain_id_board[Last]
        /\ state.chain_id_board[e] = state.chain_id_board[Last]
        /\ \A c \in RefChain(prev.chain_id_board, d, size) \cup RefChain(prev.chain_id_board, e, size) :
                state.chain_id_board[c] = state.chain_id_board[Last]

(***************************************************************************)
(* C12: constructing the engine with a board side N <= 0 fails at          *)
(* construction, so that no Game with N <= 0 exists on which init or step  *)
(* can be called: every Game that init() or step() has served has N >= 1.  *)
(***************************************************************************)
BadSizeRejected == size >= 1

(***************************************************************************)
(* C13: for an engine constructed with history depth H, the board history  *)
(* of the state holds exactly H snapshots after init() and after every     *)
(* step.                                                                   *)
(***************************************************************************)
HistoryDepthIsH == DOMAIN state.board_history = 0 .. history_length - 1

(***************************************************************************)
(* C14: after a non-pass step the ko coordinate is set if and only if the  *)
(* move captured exactly one stone in total and, on the board before the   *)
(* move, every neighbour of the played cell was off-board or the           *)
(* opponent's; when set it is the captured cell, which is empty; after a   *)
(* capture of two or more stones, or after a PASS, it is none.             *)
(***************************************************************************)
KoExact ==
    Steps >= 1 =>
        IF IsPlay(Steps)
        THEN LET b == prev.chain_id_board
                 my == _my_color(prev)
                 K == RefCaptured(b, Last, my, size)
                 shape == \A d \in NeighbourCells(Last, size) : b[d] * my < 0
             IN  /\ state.ko # 0 - 1 <=> (Cardinality(K) = 1 /\ shape)
                 /\ state.ko # 0 - 1 => (state.ko \in K /\ state.chain_id_board[state.ko] = 0)
                 /\ Cardinality(K) >= 2 => state.ko = 0 - 1
        ELSE state.ko = 0 - 1

\* two separate single stones taken by a move all of whose neighbours were
\* the opponent's: ko is none
KoExactWitness ==
    /\ Steps >= 1 /\ IsPlay(Steps)
    /\ LET b == prev.chain_id_board
           my == _my_color(prev)
           K == RefCaptured(b, Last, my, size)
       IN  /\ Cardinality(K) = 2
           /\ \A c \in K : RefChain(b, c, size) = {c}
           /\ \A d \in NeighbourCells(Last, size) : b[d] * my < 0
           /\ state.ko = 0 - 1

(***************************************************************************)
(* C15: is_psk of the state step returns is true only if the action was a  *)
(* play and the new snapshot equals one of the 7 older retained snapshots; *)
(* a PASS step returns is_psk false although the snapshot it pushes is the *)
(* previous one; a history slot never played, which holds the sentinel,    *)
(* never equals a board snapshot.                                          *)
(***************************************************************************)
\* the slots of the history that no step has filled yet
SentinelSlots == {i \in 0 .. 7 : i >= Steps}

SuperkoOnlyOnRepeat ==
    Steps >= 1 =>
        /\ state.is_psk =>
            /\ IsPlay(Steps)
            /\ \E k \in 1 .. 7 : Steps - k >= 1 /\ pushed[Steps] = pushed[Steps - k]
        /\ ~IsPlay(Steps) =>
            /\ ~state.is_psk
            /\ Steps >= 2 => state.board_history[0] = state.board_history[1]
        /\ \A i \in SentinelSlots :
            /\ \A xy \in Cells(size) : state.board_history[i][xy] = 2
            /\ state.board_history[i] # state.board_history[0]

\* a PASS on a board with stones: slot 0 repeats slot 1, slots never played
\* still hold the sentinel, and is_psk is false
SuperkoOnlyOnRepeatWitness ==
    /\ Steps >= 2 /\ ~IsPlay(Steps)
    /\ \E xy \in Cells(size) : state.chain_id_board[xy] # 0
    /\ state.board_history[0] = state.board_history[1]
    /\ SentinelSlots # {}
    /\ ~state.is_psk

(***************************************************************************)
(* C16: every step, play or PASS, flips the colour to move and pushes the  *)
(* history: slot 0 holds the new board in absolute colours (+1 black, -1   *)
(* white, 0 empty), slot i+1 holds what slot i held before the step for    *)
(* i = 0 .. 6, and the oldest snapshot is dropped; a PASS also leaves the  *)
(* board and both capture counts unchanged.                                *)
(***************************************************************************)
StepFrame ==
    Steps >= 1 =>
        /\ state.color = 1 - prev.color
        /\ DOMAIN state.board_history = 0 .. 7
        /\ \A xy \in Cells(size) :
                state.board_history[0][xy] = Sign(state.chain_id_board[xy])
        /\ \A i \in 0 .. 6 : state.board_history[i + 1] = prev.board_history[i]
        /\ ~IsPlay(Steps) =>
            /\ state.chain_id_board = prev.chain_id_board
            /\ state.num_captured_stones = prev.num_captured_stones

\* a PASS with stones of both colours on the board and a full history: the
\* snapshot dropped is a real one, and it differs from the one now oldest
StepFrameWitness ==
    /\ Steps >= 9 /\ ~IsPlay(Steps)
    /\ \E xy \in Cells(size) : state.chain_id_board[xy] > 0
    /\ \E xy \in Cells(size) : state.chain_id_board[xy] < 0
    /\ prev.board_history[7] # prev.board_history[6]
    /\ state.board_history[7] = prev.board_history[6]
    /\ state.color = 1 - prev.color

(***************************************************************************)
(* C17: for every reachable board and every chain on it, the atari test on *)
(* the aggregated sums (sum squared = sum of squares times the count) is   *)
(* true if and only if the chain has exactly one distinct liberty, and     *)
(* then sum_of_squares // sum - 1 is the coordinate of that liberty.       *)
(***************************************************************************)
\* the index of the chain of the stone at c in the arrays of _count
ChainIx(c) == Abs(state.chain_id_board[c]) - 1

\* the liberties of the chain of the stone at c
LibertiesOf(c) ==
    RefLiberties(state.chain_id_board, RefChain(state.chain_id_board, c, size), size)

Occupied == {c \in Cells(size) : state.chain_id_board[c] # 0}

AtariExact ==
    With(_count(state, size), LAMBDA cnt :
        \A c \in Occupied :
            With(LibertiesOf(c), LAMBDA libs :
                /\ InAtari(cnt, ChainIx(c), size * size) <=> Cardinality(libs) = 1
                /\ Cardinality(libs) = 1 =>
                    libs = {FloorDiv(cnt.idx_squared_sum[ChainIx(c)],
                                     cnt.idx_sum[ChainIx(c)]) - 1}))

\* a chain whose only liberty touches several of its stones, and a chain
\* with two liberties that fails the test
AtariExactWitness ==
    With(_count(state, size), LAMBDA cnt :
        /\ \E c \in Occupied :
            /\ Cardinality(LibertiesOf(c)) = 1
            /\ cnt.num_pseudo[ChainIx(c)] >= 2
            /\ InAtari(cnt, ChainIx(c), size * size)
        /\ \E c \in Occupied :
            /\ Cardinality(LibertiesOf(c)) = 2
            /\ ~InAtari(cnt, ChainIx(c), size * size))

(***************************************************************************)
(* C18: for every reachable board and every chain on it, the liberty count *)
(* the engine computes is the number of pairs of a member stone and an     *)
(* empty cell adjacent to it: an empty cell counts once for each member it *)
(* touches. The count is at least the number of distinct liberties, equals *)
(* it when no liberty touches two members, and is 0 exactly when the chain *)
(* has no liberty.                                                         *)
(***************************************************************************)
\* the pairs of a stone of the chain of c and an empty cell adjacent to it
LibertyPairs(c) ==
    With(RefChain(state.chain_id_board, c, size), LAMBDA chain :
        {p \in chain \X Cells(size) :
            state.chain_id_board[p[2]] = 0 /\ Adjacent(p[1], p[2], size)})

PseudoLibertyCount ==
    With(_count(state, size), LAMBDA cnt :
        \A c \in Occupied :
            With(LibertyPairs(c), LAMBDA pairs :
            With(LibertiesOf(c), LAMBDA libs :
                /\ cnt.num_pseudo[ChainIx(c)] = Cardinality(pairs)
                /\ cnt.num_pseudo[ChainIx(c)] >= Cardinality(libs)
                /\ (\A e \in libs : Cardinality({p \in pairs : p[2] = e}) = 1)
                    => cnt.num_pseudo[ChainIx(c)] = Cardinality(libs)
                /\ cnt.num_pseudo[ChainIx(c)] = 0 <=> libs = {})))

\* a chain with more pairs than distinct liberties
PseudoLibertyCountWitness ==
    With(_count(state, size), LAMBDA cnt :
        \E c \in Occupied :
            /\ cnt.num_pseudo[ChainIx(c)] = Cardinality(LibertyPairs(c))
            /\ cnt.num_pseudo[ChainIx(c)] > Cardinality(LibertiesOf(c))
            /\ Cardinality(LibertiesOf(c)) >= 2)

\* C18 as stated: the count is the number of distinct liberties
LibertyCountDistinct ==
    With(_count(state, size), LAMBDA cnt :
        \A c \in Occupied :
            cnt.num_pseudo[ChainIx(c)] = Cardinality(LibertiesOf(c)))

(***************************************************************************)
(* C19: in every state reachable from init() by steps with actions of the  *)
(* legal mask, every chain on the board has at least one liberty.          *)
(***************************************************************************)
EveryChainHasLiberty ==
    \A c \in Occupied : LibertiesOf(c) # {}

\* the last move went to a cell without an empty neighbour and captured:
\* the stone placed and every other chain have a liberty
EveryChainHasLibertyWitness ==
    /\ Steps >= 1 /\ IsPlay(Steps)
    /\ \A d \in NeighbourCells(Last, size) : prev.chain_id_board[d] # 0
    /\ RefCaptured(prev.chain_id_board, Last, _my_color(prev), size) # {}
    /\ LibertiesOf(Last) # {}
    /\ \A c \in Occupied : LibertiesOf(c) # {}

(***************************************************************************)
(* C20: in every state reachable by legal actions a board coordinate is in *)
(* the legal mask if and only if the cell is empty, is not the ko          *)
(* coordinate, and the mover's stone placed there, once the opponent       *)
(* chains it captures are removed, belongs to a chain with a liberty.      *)
(***************************************************************************)
\* the board, in colours, after a stone of sign my is placed at xy and the
\* chains it captures are removed
BoardAfter(board, xy, my, sz) ==
    With(RefCaptured(board, xy, my, sz), LAMBDA K :
        Arr([c \in Cells(sz) |->
            IF c = xy THEN my ELSE IF c \in K THEN 0 ELSE Sign(board[c])]))

\* placing at xy would leave the stone's chain without a liberty
Suicide(board, xy, my, sz) ==
    With(BoardAfter(board, xy, my, sz), LAMBDA after :
        RefLiberties(after, RefChain(after, xy, sz), sz) = {})

MaskIsExact ==
    With(legal_action_mask(state, size), LAMBDA mask :
        \A xy \in Cells(size) :
            mask[xy] <=>
                /\ state.chain_id_board[xy] = 0
                /\ xy # state.ko
                /\ ~Suicide(state.chain_id_board, xy, _my_color(state), size))

\* a suicide cell next to an own chain, which the mask excludes, and a cell
\* without an empty neighbour that the mask allows because it captures
MaskIsExactWitness ==
    With(legal_action_mask(state, size), LAMBDA mask :
        /\ \E xy \in Cells(size) :
            /\ state.chain_id_board[xy] = 0
            /\ xy # state.ko
            /\ \E d \in NeighbourCells(xy, size) :
                    state.chain_id_board[d] * _my_color(state) > 0
            /\ Suicide(state.chain_id_board, xy, _my_color(state), size)
            /\ ~mask[xy]
        /\ \E xy \in Cells(size) :
            /\ state.chain_id_board[xy] = 0
            /\ \A d \in NeighbourCells(xy, size) : state.chain_id_board[d] # 0
            /\ mask[xy])

====
